---- MODULE Spec2Model ----
(***************************************************************************)
(* Model of incipyt's lazy configuration tree: the builder                 *)
(* (TemplateDict.__setitem__), the deferred values (Requires,              *)
(* MultipleValues), the resolution of one template (Requires.__call__ of   *)
(* utils.py, RenderContext.render_string of templates.py) and the visitor  *)
(* (TemplateVisitor.__call__).                                             *)
(*                                                                         *)
(* Python objects are records carrying a `tag` (their class):              *)
(*   str            [tag |-> "str", s]                                     *)
(*   None           [tag |-> "NoneType"]                                   *)
(*   list           [tag |-> "list", items]       items: a sequence        *)
(*   dict           [tag |-> "dict", pairs]       pairs: <<key, value>> in *)
(*                                                insertion order          *)
(*   Transform      [tag |-> "Transform", value, transform]                *)
(*   Requires       [tag |-> "Requires", _template, _confirmed,            *)
(*                   _sanitizer, _kwargs]                                  *)
(*   MultipleValues [tag |-> "MultipleValues", _values]                    *)
(***************************************************************************)
EXTENDS Integers, Sequences, FiniteSets, TLC

VARIABLES
    data,         \* TemplateDict.data: the configuration tree (a dict)
    environment,  \* the Environment: name -> [raw, confirmed]
    run,          \* the __setitem__ calls: how many, and the latest ones made
                  \* one after another on the same keys
    made,         \* the last MultipleValues(head, tail) constructed directly
    called,       \* the last direct call of a Requires on the environment
    visited       \* the TemplateVisitor pass over data, once it has run

vars == <<data, environment, run, made, called, visited>>

(***************************************************************************)
(* Bounds.                                                                 *)
(***************************************************************************)
MaxAssign == 3

(***************************************************************************)
(* Python values.                                                          *)
(***************************************************************************)
None == [tag |-> "NoneType"]

Str(s) == [tag |-> "str", s |-> s]

List(items) == [tag |-> "list", items |-> items]

Dict(pairs) == [tag |-> "dict", pairs |-> pairs]

Transform(value, transform) ==
    [tag |-> "Transform", value |-> value, transform |-> transform]

Requires(template, confirmed, sanitizer, kwargs) ==
    [tag |-> "Requires", _template |-> template, _confirmed |-> confirmed,
     _sanitizer |-> sanitizer, _kwargs |-> kwargs]

\* Requires(template): the default wrap function applied to a raw string.
Requires1(template) == Requires(template, FALSE, "None", <<>>)

\* The key None that Formatter().parse reports for literal text.
NoneKey == "<None>"

\* callable(value): instances of Requires and MultipleValues define __call__.
callable(value) == value.tag \in {"Requires", "MultipleValues"}

\* Of the values that reach this test only a list is a Sequence that is not a
\* str.
is_nonstring_sequence(obj) == obj.tag = "list"

isMapping(obj) == obj.tag = "dict"

(***************************************************************************)
(* dict operations, insertion ordered.                                     *)
(***************************************************************************)
HasKey(d, k) == \E i \in 1..Len(d.pairs) : d.pairs[i][1] = k

IndexOf(d, k) == CHOOSE i \in 1..Len(d.pairs) : d.pairs[i][1] = k

GetKey(d, k) == d.pairs[IndexOf(d, k)][2]

PutKey(d, k, v) ==
    IF HasKey(d, k)
    THEN Dict([d.pairs EXCEPT ![IndexOf(d, k)] = <<k, v>>])
    ELSE Dict(Append(d.pairs, <<k, v>>))

DelKeys(d, ks) == Dict(SelectSeq(d.pairs, LAMBDA p : p[1] \notin ks))

KeySet(d) == {d.pairs[i][1] : i \in 1..Len(d.pairs)}

(***************************************************************************)
(* Equality.                                                               *)
(***************************************************************************)
\* a in b for two str: the substring test, over the strings of the model.
StrContains(haystack, needle) ==
    \/ needle = haystack
    \/ needle = ""
    \/ <<needle, haystack>> \in {<<"{A}", "{A}-{B}">>, <<"{B}", "{A}-{B}">>,
                                 <<"{A}", "{A}!">>}

\* getattr failing with AttributeError makes attrs_eq answer False.
attrs_eq(a, b, attrs) ==
    /\ attrs \subseteq DOMAIN a
    /\ attrs \subseteq DOMAIN b
    /\ \A attr \in attrs : a[attr] = b[attr]

Requires__eq__(self, other) ==
    attrs_eq(self, other, {"_template", "_confirmed", "_sanitizer", "_kwargs"})

MultipleValues__eq__(self, other) == attrs_eq(self, other, {"_values"})

\* dict == dict compares the items whatever their order.
DictEq(a, b) ==
    /\ KeySet(a) = KeySet(b)
    /\ \A k \in KeySet(a) : GetKey(a, k) = GetKey(b, k)

\* a == b: the __eq__ of a's class; a builtin left operand answers
\* NotImplemented to an instance of Requires or MultipleValues, and Python
\* then asks the reflected __eq__ of b.
PyEq(a, b) ==
    CASE a.tag = "Requires" -> Requires__eq__(a, b)
      [] a.tag = "MultipleValues" -> MultipleValues__eq__(a, b)
      [] b.tag = "Requires" -> Requires__eq__(b, a)
      [] b.tag = "MultipleValues" -> MultipleValues__eq__(b, a)
      [] a.tag = "dict" /\ b.tag = "dict" -> DictEq(a, b)
      [] OTHER -> a = b

(***************************************************************************)
(* MultipleValues.__init__                                                 *)
(***************************************************************************)
\* The new value put after the values already there.
MultipleValues_appending(head, tail) ==
    [tag |-> "MultipleValues",
     _values |-> IF tail.tag = "MultipleValues"
                 THEN Append(tail._values, head)
                 ELSE <<tail, head>>]

MultipleValues(head, tail) ==
    [tag |-> "MultipleValues",
     _values |-> IF tail.tag = "MultipleValues"
                 THEN <<head>> \o tail._values
                 ELSE <<head, tail>>]

(***************************************************************************)
(* TemplateDict                                                            *)
(***************************************************************************)
\* transform is "Requires" (the default), "identity" or "NoTransform" (the
\* argument left out).
_get_transform(value, transform) ==
    IF value.tag = "Transform"
    THEN value
    ELSE Transform(value, IF transform # "NoTransform" THEN transform
                          ELSE "Requires")

ApplyTransform(transform, value) ==
    IF transform = "Requires" THEN Requires1(value.s) ELSE value

_get_value(value, transform) ==
    IF value.tag = "Transform"
    THEN ApplyTransform(value.transform, value.value)
    ELSE IF callable(value)
    THEN value
    ELSE ApplyTransform(transform, value)

\* Outcome of a handler: the tree it leaves and the exception it raised
\* ("" when it returned).
Outcome(d, raised) == [data |-> d, raised |-> raised]

\* `v not in config[key]` followed by `config[key].append(...)`, for one v:
\* lines 156-157.
AppendOne(slot, v, transform) ==
    CASE slot.tag = "list" ->
            IF \E i \in 1..Len(slot.items) : PyEq(slot.items[i], v)
            THEN Outcome(slot, "")
            ELSE Outcome(List(Append(slot.items, _get_value(v, transform))), "")
      [] slot.tag = "str" ->
            IF v.tag # "str" THEN Outcome(slot, "TypeError")
            ELSE IF StrContains(slot.s, v.s) THEN Outcome(slot, "")
            ELSE Outcome(slot, "AttributeError")
      [] OTHER -> Outcome(slot, "TypeError")

RECURSIVE AppendAll(_, _, _)
AppendAll(slot, values, transform) ==
    IF values = <<>> THEN Outcome(slot, "")
    ELSE LET r == AppendOne(slot, Head(values), transform) IN
         IF r.raised # "" THEN r
         ELSE AppendAll(r.data, Tail(values), transform)

\* The sequence branch at the final key: lines 147-157.
SetSequence(config, key, value, transform) ==
    LET config1 == IF HasKey(config, key) THEN config
                   ELSE PutKey(config, key, List(<<>>))
        slot == GetKey(config1, key)
    IN  IF isMapping(slot) THEN Outcome(config1, "AssertionError")
        ELSE LET r == AppendAll(slot, value.items, transform) IN
             Outcome(PutKey(config1, key, r.data), r.raised)

\* The scalar branch at the final key: lines 159-165.
SetScalar(config, key, value, transform) ==
    LET leaf == _get_value(value, transform) IN
    IF HasKey(config, key)
    THEN IF ~PyEq(GetKey(config, key), leaf)
         THEN Outcome(PutKey(config, key,
                             MultipleValues(leaf, GetKey(config, key))), "")
         ELSE Outcome(config, "")
    ELSE Outcome(PutKey(config, key, leaf), "")

\* Lines 138-165: walk keys[:-1], creating the missing maps, then set the
\* final key. `key not in config` raises TypeError on a Requires or a
\* MultipleValues; on a list or a str it is answered, and the item access
\* that follows raises TypeError.
RECURSIVE SetAt(_, _, _, _)
SetAt(config, keys, value, transform) ==
    LET key == Head(keys) IN
    IF Len(keys) > 1
    THEN LET config1 == IF HasKey(config, key) THEN config
                        ELSE PutKey(config, key, Dict(<<>>))
             child == GetKey(config1, key)
         IN  IF child.tag # "dict" THEN Outcome(config1, "TypeError")
             ELSE LET r == SetAt(child, Tail(keys), value, transform) IN
                  Outcome(PutKey(config1, key, r.data), r.raised)
    ELSE IF is_nonstring_sequence(value)
    THEN SetSequence(config, key, value, transform)
    ELSE SetScalar(config, key, value, transform)

\* TemplateDict.__setitem__(keys, value), keys a tuple.
RECURSIVE __setitem__(_, _, _)
RECURSIVE SetItems(_, _, _, _)
SetItems(d, keys, pairs, transform) ==
    IF pairs = <<>> THEN Outcome(d, "")
    ELSE LET r == __setitem__(d, Append(keys, Head(pairs)[1]),
                              _get_transform(Head(pairs)[2], transform))
         IN  IF r.raised # "" THEN r
             ELSE SetItems(r.data, keys, Tail(pairs), transform)

__setitem__(d, keys, value0) ==
    LET t == _get_transform(value0, "NoTransform")
        value == t.value
        transform == t.transform
    IN  IF isMapping(value)
        THEN SetItems(d, keys, value.pairs, transform)
        ELSE SetAt(d, keys, value, transform)

(***************************************************************************)
(* string.Formatter().parse, on the templates of the model: the           *)
(* <<literal_text, field_name>> of each item, field_name NoneKey where     *)
(* Python reports None (literal text that no field follows).               *)
(***************************************************************************)
FormatterParse(template) ==
    CASE template = "{A}-{B}" -> << <<"", "A">>, <<"-", "B">> >>
      [] template = "{A}" -> << <<"", "A">> >>
      [] template = "{B}" -> << <<"", "B">> >>
      [] template = "{A}{A}" -> << <<"", "A">>, <<"", "A">> >>
      [] template = "{A}!" -> << <<"", "A">>, <<"!", NoneKey>> >>
      [] template = "lit" -> << <<"lit", NoneKey>> >>
      [] template = "" -> << >>

\* str.format(**args): every item's literal text, then the value of its
\* field.
RECURSIVE Format(_, _)
Format(items, args) ==
    IF items = <<>> THEN ""
    ELSE Head(items)[1]
         \o (IF Head(items)[2] = NoneKey THEN "" ELSE args[Head(items)[2]])
         \o Format(Tail(items), args)

\* A sanitizer is a function of (key, value); "None" is no sanitizer, "strip"
\* removes the white space around the value.
Sanitize(sanitizer, key, value) ==
    IF sanitizer = "strip" /\ value = " " THEN "" ELSE value

\* Python truth of a str.
Truthy(value) == value # ""

(***************************************************************************)
(* The Environment: pull and push.                                         *)
(***************************************************************************)
EnvValue(value, confirmed) == [raw |-> value, confirmed |-> confirmed]

\* An environment with the log of the calls made on it.
EnvLog(env, log) == [env |-> env, log |-> log]

pull_env(env, name) ==
    IF name \in DOMAIN env THEN env ELSE env @@ (name :> EnvValue("", FALSE))

pull_value(env, name) == pull_env(env, name)[name].raw

\* One call on the environment, as the log keeps it.
Logged(op, name, value, confirmed) ==
    [op |-> op, name |-> name, value |-> value, confirmed |-> confirmed]

pull(e, name) ==
    EnvLog(pull_env(e.env, name),
           Append(e.log, Logged("pull", name, "", FALSE)))

push_env(env, name, value, confirmed) ==
    IF name \notin DOMAIN env
    THEN env @@ (name :> EnvValue(value, confirmed))
    ELSE IF env[name].raw = "" \/ (confirmed /\ ~env[name].confirmed)
    THEN [env EXCEPT ![name] = EnvValue(value, confirmed)]
    ELSE env

push(e, name, value, confirmed) ==
    EnvLog(push_env(e.env, name, value, confirmed),
           Append(e.log, Logged("push", name, value, confirmed)))

\* What a call of a deferred value gives: its value, and the environment
\* with the calls made on it.
Result(value, e) == [value |-> value, e |-> e]

(***************************************************************************)
(* utils.py: Requires.__call__                                             *)
(***************************************************************************)
\* The loop left at the first field without an override (break for continue).
RECURSIVE PushOverrides_break(_, _, _)
PushOverrides_break(self, items, e) ==
    IF items = <<>> THEN e
    ELSE LET key == Head(items)[2] IN
         IF key \notin DOMAIN self._kwargs THEN e
         ELSE PushOverrides_break(self, Tail(items),
                  push(e, key, self._kwargs[key], self._confirmed))

\* Lines 69-73.
RECURSIVE PushOverrides(_, _, _)
PushOverrides(self, items, e) ==
    IF items = <<>> THEN e
    ELSE LET key == Head(items)[2] IN
         PushOverrides(self, Tail(items),
             IF key \notin DOMAIN self._kwargs THEN e
             ELSE push(e, key, self._kwargs[key], self._confirmed))

\* Lines 75-83: the environment once every field was pulled.
RECURSIVE PullArgsEnv(_, _)
PullArgsEnv(items, e) ==
    IF items = <<>> THEN e
    ELSE PullArgsEnv(Tail(items),
             IF Head(items)[2] = NoneKey THEN e ELSE pull(e, Head(items)[2]))

FieldNames(items) ==
    {items[i][2] : i \in 1..Len(items)} \ {NoneKey}

Requires__call__(self, e0) ==
    LET items == FormatterParse(self._template)
        e1 == PushOverrides(self, items, e0)
        e2 == PullArgsEnv(items, e1)
        \* a pull changes no raw value: args can be read off e1
        args == [key \in FieldNames(items) |->
                    Sanitize(self._sanitizer, key, pull_value(e1.env, key))]
    IN  IF \E key \in DOMAIN args : ~Truthy(args[key])
        THEN Result(None, e2)
        ELSE Result(Str(Format(items, args)), e2)

(***************************************************************************)
(* templates.py: RenderContext, as Requires.__call__ drives it             *)
(***************************************************************************)
\* Iteration over the set self._keys: the keys in the order the set's hash
\* table gives, `order` being one ordering of all names.
SetIter(keys, order) == SelectSeq(order, LAMBDA k : k \in keys)

\* Lines 316-318.
RECURSIVE SetOverrides(_, _, _, _)
SetOverrides(keys, kwargs, confirmed, e) ==
    IF keys = <<>> THEN e
    ELSE SetOverrides(Tail(keys), kwargs, confirmed,
             IF Head(keys) \in DOMAIN kwargs
             THEN push(e, Head(keys), kwargs[Head(keys)], confirmed)
             ELSE e)

\* template.format(**self): __getitem__ of every key in turn (lines
\* 267-273), the first empty value raising ValueError. ok is FALSE once
\* ValueError was raised.
RECURSIVE GetItems(_, _, _, _)
GetItems(keys, sanitizer, e, args) ==
    IF keys = <<>> THEN [ok |-> TRUE, e |-> e, args |-> args]
    ELSE LET key == Head(keys)
             e1 == pull(e, key)
             value == e1.env[key].raw
         IN  IF ~Truthy(value)
             THEN [ok |-> FALSE, e |-> e1, args |-> args]
             ELSE GetItems(Tail(keys), sanitizer, e1,
                      args @@ (key :> Sanitize(sanitizer, key, value)))

\* Lines 315-321, with contextlib.suppress(ValueError).
render_string(self, e0, order) ==
    LET items == FormatterParse(self._template)
        _keys == {items[i][2] : i \in 1..Len(items)}
        e1 == SetOverrides(SetIter(_keys, order), self._kwargs,
                           self._confirmed, e0)
        got == GetItems(SetIter(_keys, order), self._sanitizer, e1, <<>>)
    IN  IF got.ok
        THEN Result(Str(Format(items, got.args)), got.e)
        ELSE Result(None, got.e)

(***************************************************************************)
(* MultipleValues.__call__ and click.prompt                                *)
(***************************************************************************)
\* click.prompt with a Choice: the prompter answers one of the options.
Prompt(options, pick) ==
    IF pick = "first" THEN options[1] ELSE options[Len(options)]

RECURSIVE Call(_, _, _, _)
RECURSIVE CallEach(_, _, _, _, _)
\* Lines 65-68: the list of the options, each callable value called in turn.
CallEach(values, options, e, order, pick) ==
    IF values = <<>> THEN Result(options, e)
    ELSE IF callable(Head(values))
    THEN LET r == Call(Head(values), e, order, pick) IN
         CallEach(Tail(values), Append(options, r.value), r.e, order, pick)
    ELSE CallEach(Tail(values), Append(options, Head(values)), e, order, pick)

\* value(environment), value a Requires or a MultipleValues of templates.py.
Call(value, e, order, pick) ==
    IF value.tag = "Requires"
    THEN render_string(value, e, order)
    ELSE LET r == CallEach(value._values, <<>>, e, order, pick) IN
         Result(Prompt(r.value, pick), r.e)

(***************************************************************************)
(* TemplateVisitor.__call__                                                *)
(***************************************************************************)
\* An emptied map left in place.
MappingNode_kept(value) == value

\* Lines 239-240.
MappingNode(value) == IF value.pairs = <<>> THEN None ELSE value

\* any() for all().
SequenceNode_any(value) ==
    IF \E i \in 1..Len(value.items) : value.items[i] = None
    THEN None
    ELSE value

\* Lines 247-248.
SequenceNode(value) ==
    IF \A i \in 1..Len(value.items) : value.items[i] = None
    THEN None
    ELSE value

\* Lines 250-251.
Prune(template) ==
    DelKeys(template, {k \in KeySet(template) : GetKey(template, k) = None})

RECURSIVE Visit(_, _, _, _)
RECURSIVE VisitPairs(_, _, _, _, _)
RECURSIVE VisitElements(_, _, _, _, _)

\* Lines 242-246, from element i on.
VisitElements(items, i, e, order, pick) ==
    IF i > Len(items) THEN Result(items, e)
    ELSE LET element == items[i] IN
         IF callable(element)
         THEN LET r == Call(element, e, order, pick) IN
              VisitElements([items EXCEPT ![i] = r.value], i + 1, r.e,
                            order, pick)
         ELSE IF element.tag = "dict"
         THEN LET r == Visit(element, e, order, pick) IN
              VisitElements([items EXCEPT ![i] = r.value], i + 1, r.e,
                            order, pick)
         ELSE VisitElements(items, i + 1, e, order, pick)

\* Lines 233-248, from pair i on.
VisitPairs(pairs, i, e, order, pick) ==
    IF i > Len(pairs) THEN Result(pairs, e)
    ELSE LET key == pairs[i][1]
             value == pairs[i][2]
         IN  IF callable(value)
             THEN LET r == Call(value, e, order, pick) IN
                  VisitPairs([pairs EXCEPT ![i] = <<key, r.value>>], i + 1,
                             r.e, order, pick)
             ELSE IF value.tag = "dict"
             THEN LET r == Visit(value, e, order, pick) IN
                  VisitPairs([pairs EXCEPT ![i] = <<key, MappingNode(r.value)>>],
                             i + 1, r.e, order, pick)
             ELSE IF value.tag = "list"
             THEN LET r == VisitElements(value.items, 1, e, order, pick) IN
                  VisitPairs([pairs EXCEPT
                                 ![i] = <<key, SequenceNode(List(r.value))>>],
                             i + 1, r.e, order, pick)
             ELSE VisitPairs(pairs, i + 1, e, order, pick)

Visit(template, e, order, pick) ==
    LET r == VisitPairs(template.pairs, 1, e, order, pick) IN
    Result(Prune(Dict(r.value)), r.e)

(***************************************************************************)
(* Inputs.                                                                 *)
(***************************************************************************)
\* The key paths assigned to.
Paths == << <<"k">>, <<"j">>, <<"k", "j">>, <<"k", "j", "k">> >>

\* The values assigned.
Values ==
    << Str("{A}"),
       Str("{B}"),
       Str("lit"),
       List(<<Str("{A}")>>),
       List(<<Str("{A}"), Str("{B}")>>),
       List(<<Str("{B}"), Str("{B}")>>),
       List(<<>>),
       Transform(Str("{A}"), "identity"),
       Requires("{A}", FALSE, "None", [n \in {"A"} |-> "forced"]),
       MultipleValues(Requires1("{A}"), Requires1("{B}")),
       Dict(<< <<"j", Str("{A}")>> >>),
       List(<<Requires1("{A}")>>) >>

\* The values assigned before a visit.
VisitValues == {1, 2, 3, 5}

\* Operands of a MultipleValues built directly.
Operands ==
    << Str("a"), Str("b"), Str("c"),
       Requires1("{A}"), Requires1("{B}"), Requires1("lit"),
       MultipleValues(Str("a"), Str("b")),
       MultipleValues(Str("b"), Str("c")),
       MultipleValues(Requires1("{A}"), Requires1("{B}")),
       MultipleValues(Str("a"), MultipleValues(Str("b"), Str("c"))),
       MultipleValues(Requires1("lit"), Str("c")) >>

\* The template expressions resolved.
Expressions ==
    << Requires1("{A}-{B}"),
       Requires1("{A}"),
       Requires1("{B}"),
       Requires1("{A}{A}"),
       Requires1("{A}!"),
       Requires1("lit"),
       Requires1(""),
       Requires("{A}-{B}", FALSE, "strip", <<>>),
       Requires("{A}!", FALSE, "strip", <<>>),
       Requires("{A}", FALSE, "None", [n \in {"A"} |-> "forced"]),
       Requires("{A}", TRUE, "None", [n \in {"A"} |-> "forced"]),
       Requires("{A}", FALSE, "None", [n \in {"B"} |-> "forced"]),
       Requires("{A}-{B}", TRUE, "strip", [n \in {"B"} |-> "forced"]),
       Requires("lit", FALSE, "None", [n \in {"A"} |-> "forced"]) >>

Names == {"A", "B"}

\* The orders in which a set of keys may be iterated.
Orders ==
    {o \in [1..3 -> Names \cup {NoneKey}] :
        \A i, j \in 1..3 : o[i] = o[j] => i = j}

\* Every template assigned before a visit has one key: whatever the order,
\* its set of keys is iterated the same way, and one order stands for all.
VisitOrders == {CHOOSE order \in Orders : TRUE}

\* The environments resolution starts from: a name is unknown, or has a
\* value that is empty, blank or set.
EnvOf(names, raw, confirmed) ==
    [n \in names |-> EnvValue(raw[n], n \in confirmed)]

Environments ==
    UNION {{EnvOf(names, raw, confirmed) :
                raw \in [names -> {"", " ", "x"}], confirmed \in SUBSET names} :
           names \in SUBSET Names}

\* The environments a visit starts from: a name is unknown or set.
VisitEnvironments ==
    {EnvOf(names, [n \in names |-> IF n = "A" THEN "x" ELSE "y"], {}) :
        names \in SUBSET Names}

\* n: the calls made; keys, vis: the keys and the values (indices in Values) of
\* the latest calls made one after another on the same keys; fresh: the tree
\* held nothing at keys before them; raised: what the last call raised;
\* clean: no call has raised.
NoRun ==
    [n |-> 0, keys |-> <<>>, vis |-> <<>>, fresh |-> TRUE, raised |-> "",
     clean |-> TRUE]

NotMade == [op |-> "none"]

NotCalled == [op |-> "none"]

NotVisited == [done |-> FALSE]

(***************************************************************************)
(* Actions.                                                                *)
(***************************************************************************)
\* Whether the tree holds something at keys.
RECURSIVE Holds(_, _)
Holds(d, keys) ==
    /\ d.tag = "dict"
    /\ HasKey(d, Head(keys))
    /\ Len(keys) = 1 \/ Holds(GetKey(d, Head(keys)), Tail(keys))

\* What the tree holds at keys.
RECURSIVE At(_, _)
At(d, keys) ==
    IF Len(keys) = 1 THEN GetKey(d, Head(keys))
    ELSE At(GetKey(d, Head(keys)), Tail(keys))

\* configuration[keys] = value
SetItem(pi, vi) ==
    /\ run.n < MaxAssign
    /\ ~visited.done
    /\ LET r == __setitem__(data, Paths[pi], Values[vi]) IN
       /\ data' = r.data
       /\ run' = IF run.n > 0 /\ run.keys = Paths[pi]
                 THEN [run EXCEPT !.n = @ + 1, !.vis = Append(@, vi),
                                  !.raised = r.raised,
                                  !.clean = @ /\ r.raised = ""]
                 ELSE [n |-> run.n + 1, keys |-> Paths[pi], vis |-> <<vi>>,
                       fresh |-> ~Holds(data, Paths[pi]),
                       raised |-> r.raised,
                       clean |-> run.clean /\ r.raised = ""]
    /\ UNCHANGED <<environment, made, called, visited>>

\* MultipleValues(head, tail)
Construct ==
    /\ made.op = "operands"
    /\ made' = [made EXCEPT !.op = "MultipleValues",
                            !.result = MultipleValues(made.head, made.tail)]
    /\ UNCHANGED <<data, environment, run, called, visited>>

\* utils.Requires(...)(environment)
CallUtils(xi) ==
    LET self == Expressions[xi]
        r == Requires__call__(self, EnvLog(environment, <<>>))
    IN  /\ called' = [op |-> "utils", self |-> self, before |-> environment,
                      value |-> r.value, log |-> r.e.log]
        /\ environment' = r.e.env
        /\ UNCHANGED <<data, run, made, visited>>

\* templates.Requires(...)(environment)
CallTemplates(xi, order) ==
    LET self == Expressions[xi]
        r == render_string(self, EnvLog(environment, <<>>), order)
    IN  /\ called' = [op |-> "templates", self |-> self,
                      before |-> environment,
                      value |-> r.value, log |-> r.e.log]
        /\ environment' = r.e.env
        /\ UNCHANGED <<data, run, made, visited>>

\* TemplateVisitor(environment)(configuration.data)
VisitAll(order, pick) ==
    /\ ~visited.done
    /\ LET r == Visit(data, EnvLog(environment, <<>>), order, pick) IN
       /\ data' = r.value
       /\ environment' = r.e.env
       /\ visited' = [done |-> TRUE, pick |-> pick, before |-> data,
                      environment |-> environment]
    /\ UNCHANGED <<run, made, called>>

(***************************************************************************)
(* Specifications.                                                         *)
(***************************************************************************)
InitWith(envs, mades) ==
    /\ data = Dict(<<>>)
    /\ environment \in envs
    /\ run = NoRun
    /\ made \in mades
    /\ called = NotCalled
    /\ visited = NotVisited

\* Building, then one visit.
Init == InitWith(VisitEnvironments, {NotMade})

Next ==
    \/ \E pi \in 1..Len(Paths), vi \in VisitValues : SetItem(pi, vi)
    \/ \E order \in VisitOrders, pick \in {"first", "last"} :
          VisitAll(order, pick)

Spec == Init /\ [][Next]_vars

\* Building alone, with every value.
InitBuild == InitWith({<<>>}, {NotMade})

NextBuild == \E pi \in 1..Len(Paths), vi \in 1..Len(Values) : SetItem(pi, vi)

SpecBuild == InitBuild /\ [][NextBuild]_vars

\* Constructing one MultipleValues.
InitConstruct ==
    \E hi, ti \in 1..Len(Operands) :
        InitWith({<<>>}, {[op |-> "operands", head |-> Operands[hi],
                           tail |-> Operands[ti], result |-> None]})

NextConstruct == Construct

SpecConstruct == InitConstruct /\ [][NextConstruct]_vars

\* Resolving template expressions one after another.
InitCall == InitWith(Environments, {NotMade})

NextCall ==
    \/ \E xi \in 1..Len(Expressions) : CallUtils(xi)
    \/ \E xi \in 1..Len(Expressions), order \in Orders :
          CallTemplates(xi, order)

SpecCall == InitCall /\ [][NextCall]_vars

(***************************************************************************)
(* Properties of the builder.                                              *)
(***************************************************************************)
\* The step is a __setitem__ call.
Assigned == run'.n = run.n + 1

\* The value the step assigned.
AssignedValue == Values[run'.vis[Len(run'.vis)]]

\* The leaves the default wrap function builds from the elements of a list.
Leaves(value) ==
    {_get_value(value.items[i], "Requires") : i \in 1..Len(value.items)}

HeldAlready(slot, value) ==
    /\ slot.tag = "list"
    /\ \A leaf \in Leaves(value) :
          \E i \in 1..Len(slot.items) : slot.items[i] = leaf

\* C1: assigning a sequence whose values the sequence stored at the path
\* already holds (as the leaves built from them) leaves the length of the
\* stored sequence as it was.
C1_ReappendKeepsLength ==
    [][(/\ Assigned
        /\ AssignedValue.tag = "list"
        /\ Holds(data, run'.keys)
        /\ HeldAlready(At(data, run'.keys), AssignedValue))
       => /\ Holds(data', run'.keys)
          /\ Len(At(data', run'.keys).items) = Len(At(data, run'.keys).items)
      ]_vars

\* C2: assigning the same scalar value to the same path twice in a row
\* leaves the stored leaf, after the second assignment, as it was after the
\* first.
C2_ScalarIdempotent ==
    [][(/\ Assigned
        /\ run.n > 0
        /\ run'.keys = run.keys
        /\ run.raised = ""
        /\ AssignedValue.tag \notin {"list", "dict"}
        /\ run'.vis[Len(run'.vis)] = run.vis[Len(run.vis)])
       => At(data', run.keys) = At(data, run.keys)
      ]_vars

\* C4: the values of a MultipleValues built from any head and tail hold no
\* MultipleValues.
C4_ConstructFlattens ==
    made.op = "MultipleValues"
        => \A i \in 1..Len(made.result._values) :
              made.result._values[i].tag # "MultipleValues"

\* No MultipleValues of the tree has a map or a sequence among its values.
RECURSIVE ScalarCandidates(_)
ScalarCandidates(node) ==
    CASE node.tag = "dict" ->
            \A i \in 1..Len(node.pairs) : ScalarCandidates(node.pairs[i][2])
      [] node.tag = "list" ->
            \A i \in 1..Len(node.items) : ScalarCandidates(node.items[i])
      [] node.tag = "MultipleValues" ->
            \A i \in 1..Len(node._values) :
                /\ node._values[i].tag \notin {"dict", "list"}
                /\ ScalarCandidates(node._values[i])
      [] OTHER -> TRUE

\* C5: as long as no assignment has raised, no slot of the tree is a
\* MultipleValues with a nested map or a sequence among its values.
C5_ShapesKept == run.clean => ScalarCandidates(data)

(***************************************************************************)
(* Properties of the resolution of one template expression.                *)
(***************************************************************************)
\* The value a placeholder resolves to once the call is over: what the
\* environment holds for it, through the sanitizer.
Resolved(self, name) ==
    Sanitize(self._sanitizer, name,
             IF name \in DOMAIN environment THEN environment[name].raw ELSE "")

Placeholders(self) == FieldNames(FormatterParse(self._template))

\* C6: the call gives None exactly when a placeholder resolves to an empty
\* value, and the template with every placeholder replaced by its value
\* otherwise; a template without placeholder gives its literal text.
C6_ResolvesOrNoValue ==
    called.op # "none" =>
        LET self == called.self IN
        IF \E name \in Placeholders(self) : ~Truthy(Resolved(self, name))
        THEN called.value = None
        ELSE called.value =
                Str(Format(FormatterParse(self._template),
                           [name \in Placeholders(self) |->
                               Resolved(self, name)]))

PushedAt(i, self, name) ==
    called.log[i] = Logged("push", name, self._kwargs[name], self._confirmed)

PushesBeforePulls ==
    \A i, j \in 1..Len(called.log) :
        called.log[i].op = "push" /\ called.log[j].op = "pull" => i < j

\* "{A}" with the override A = "forced", on an environment that does not know
\* A, resolves to "forced".
ForcedExample ==
    (/\ called.self._template = "{A}"
     /\ "A" \in DOMAIN called.self._kwargs
     /\ "A" \notin DOMAIN called.before)
        => called.value = Str(called.self._kwargs["A"])

\* C7, as claimed: every override is pushed, with the confirmed flag of the
\* expression, whether its name is a placeholder of the template or not, and
\* before any placeholder is pulled.
C7_EveryOverridePushed ==
    called.op # "none" =>
        /\ \A name \in DOMAIN called.self._kwargs :
              \E i \in 1..Len(called.log) : PushedAt(i, called.self, name)
        /\ PushesBeforePulls
        /\ ForcedExample

\* C7, amended: every override whose name is a placeholder of the template
\* is pushed, with the confirmed flag of the expression, before any
\* placeholder is pulled; no other override is pushed.
C7_PlaceholderOverridesPushed ==
    called.op # "none" =>
        /\ \A name \in DOMAIN called.self._kwargs \cap Placeholders(called.self) :
              \E i \in 1..Len(called.log) : PushedAt(i, called.self, name)
        /\ \A i \in 1..Len(called.log) :
              called.log[i].op = "push" =>
                  /\ called.log[i].name \in DOMAIN called.self._kwargs
                  /\ called.log[i].name \in Placeholders(called.self)
        /\ PushesBeforePulls
        /\ ForcedExample

\* An override was pushed and a placeholder pulled after it, the name being
\* unknown before: the override is what the template resolved to.
C7_Witness ==
    /\ called.op # "none"
    /\ called.self._template = "{A}-{B}"
    /\ "B" \in DOMAIN called.self._kwargs
    /\ "B" \notin DOMAIN called.before
    /\ \E i, j \in 1..Len(called.log) :
          /\ i < j
          /\ called.log[i].op = "push"
          /\ called.log[j].op = "pull"
    /\ called.value = Str("x-forced")

\* C10: once the call is over the environment has an entry for every
\* placeholder of the template, whatever the call gave.
C10_EveryPlaceholderPulled ==
    called.op # "none" =>
        \A name \in Placeholders(called.self) : name \in DOMAIN environment

(***************************************************************************)
(* Properties of conflicts and of the visitor.                             *)
(***************************************************************************)
\* The latest assignments gave k >= 2 pairwise distinct strings to keys, the
\* tree holding nothing there before them.
DistinctScalarsAssigned ==
    /\ Len(run.vis) >= 2
    /\ run.fresh
    /\ run.raised = ""
    /\ \A i \in 1..Len(run.vis) : Values[run.vis[i]].tag = "str"
    /\ \A i, j \in 1..Len(run.vis) : run.vis[i] = run.vis[j] => i = j

\* The leaves built from the strings assigned, the most recent first.
MostRecentFirst ==
    [i \in 1..Len(run.vis) |->
        Requires1(Values[run.vis[Len(run.vis) + 1 - i]].s)]

\* What the leaf built from the string assigned last resolves to on the
\* environment the visit started from (no value of the environment changes
\* during a visit of leaves without overrides).
MostRecentResolved ==
    render_string(MostRecentFirst[1], EnvLog(visited.environment, <<>>),
                  CHOOSE order \in Orders : TRUE).value

\* C3: k >= 2 pairwise distinct strings assigned one after another to one
\* path leave there a MultipleValues of their leaves, the most recent first;
\* a visit whose prompter picks the first option leaves there what the most
\* recent one resolves to (nothing when that is None).
C3_MostRecentWins ==
    DistinctScalarsAssigned =>
        /\ ~visited.done =>
              /\ Holds(data, run.keys)
              /\ At(data, run.keys).tag = "MultipleValues"
              /\ At(data, run.keys)._values = MostRecentFirst
        /\ (visited.done /\ visited.pick = "first") =>
              IF MostRecentResolved = None
              THEN ~Holds(data, run.keys)
              ELSE /\ Holds(data, run.keys)
                   /\ At(data, run.keys) = MostRecentResolved

\* Three strings were assigned to one path and the visit, picking first,
\* left there what the last one resolves to, the one before it resolving to
\* another value.
C3_Witness ==
    /\ DistinctScalarsAssigned
    /\ run.vis = <<3, 1, 2>>
    /\ run.keys = <<"k", "j">>
    /\ visited.done
    /\ visited.pick = "first"
    /\ DOMAIN visited.environment = {"A", "B"}
    /\ data = Dict(<< <<"k", Dict(<< <<"j", Str("y")>> >>)>> >>)

\* No map of the tree, at any depth below map keys, holds None or an empty
\* map.
RECURSIVE NothingEmpty(_)
NothingEmpty(d) ==
    \A i \in 1..Len(d.pairs) :
        LET value == d.pairs[i][2] IN
        /\ value # None
        /\ value.tag = "dict" => (value.pairs # <<>> /\ NothingEmpty(value))

\* C8: after the visit no map reachable through map keys holds a key whose
\* value is None or an empty map; a tree of nested maps whose only leaf
\* resolves to None is left empty.
C8_PrunedThroughout ==
    visited.done =>
        /\ NothingEmpty(data)
        /\ (/\ run.n = 1
            /\ Values[run.vis[1]].tag = "str"
            /\ render_string(Requires1(Values[run.vis[1]].s),
                             EnvLog(visited.environment, <<>>),
                             CHOOSE order \in Orders : TRUE).value = None)
               => data = Dict(<<>>)

\* A leaf two maps down resolved to None and the visit emptied the tree,
\* while the map beside it kept its leaf.
C8_Witness ==
    /\ visited.done
    /\ Holds(visited.before, <<"k", "j", "k">>)
    /\ At(visited.before, <<"k", "j", "k">>) = Requires1("{A}")
    /\ Holds(visited.before, <<"j">>)
    /\ "A" \notin DOMAIN visited.environment
    /\ ~HasKey(data, "k")
    /\ HasKey(data, "j")

\* What the elements of a list of leaves without overrides resolve to.
ResolvedItems(items) ==
    [i \in 1..Len(items) |->
        IF callable(items[i])
        THEN render_string(items[i], EnvLog(visited.environment, <<>>),
                           CHOOSE order \in Orders : TRUE).value
        ELSE items[i]]

\* C9: a sequence is replaced by the sequence of what its elements resolve
\* to, None included, its length unchanged, and its key is removed exactly
\* when every element resolved to None.
C9_SequenceKeptWhole ==
    visited.done =>
        \A pi \in 1..Len(Paths) :
            (/\ Holds(visited.before, Paths[pi])
             /\ At(visited.before, Paths[pi]).tag = "list")
            => LET items == ResolvedItems(At(visited.before, Paths[pi]).items)
               IN  IF \A i \in 1..Len(items) : items[i] = None
                   THEN ~Holds(data, Paths[pi])
                   ELSE /\ Holds(data, Paths[pi])
                        /\ At(data, Paths[pi]) = List(items)

\* A sequence of two elements, one resolved to a string and one to None,
\* was kept with both.
C9_Witness ==
    /\ visited.done
    /\ Holds(data, <<"k", "j">>)
    /\ At(data, <<"k", "j">>) = List(<<None, Str("y")>>)

====
